---- MODULE Spec2Model ----
(***************************************************************************)
(* Model of import-via-mcp.py: the start-up configuration check, the CSV   *)
(* loader (load_csv_data), the batch builders (create_brands_batch,        *)
(* create_notes_batch), the remote executor (execute_sql) and main.        *)
(*                                                                         *)
(* Text is a sequence of Unicode code points, a file is a sequence of      *)
(* lines of bytes, so that decoding, title-casing and quote escaping are   *)
(* computed the way Python computes them.                                  *)
(***************************************************************************)
EXTENDS Integers, Sequences, FiniteSets, TLC

VARIABLES
    pc,             \* position of the script: "start", "main", "load", "loaded",
                    \* "brands", "notes", "done", "exited" (exit(1) at start-up),
                    \* "crashed" (an exception left main), "norm" (the transform alone)
    env,            \* the process environment: variable name -> None, "" or a value
    SUPABASE_URL, SUPABASE_ANON_KEY,   \* module-level configuration
    file,           \* fra_cleaned.csv: [exists, lines, chunk]
    encIdx,         \* index into encodings of the attempt to make next
    attempts,       \* encodings tried so far in this load, with their outcome
    opens,          \* number of times the CSV file was opened by this process
    brands, notes, fragrances,         \* accumulators of load_csv_data
    loadResult,     \* what load_csv_data returned: [ok, brands, notes, fragrances]
    i,              \* loop index of the batch loop in main
    requests,       \* HTTP requests issued by this process, in order
    lastCall,       \* the last batch call: table, batch number, response, result, ok
    failedLines,    \* "Failed to create ... batch k" lines printed by main
    completed,      \* the completion message was printed
    brandsTable, notesTable,           \* the remote tables, as sets of names
    run,            \* number of the current invocation of the script
    history,        \* the tables as this run found them, and whether the run before
                    \* it completed with every batch successful
    normIn, normOut, normCount         \* brand normalisation as a pure function

vars == <<pc, env, SUPABASE_URL, SUPABASE_ANON_KEY, file, encIdx, attempts, opens,
          brands, notes, fragrances, loadResult, i, requests, lastCall,
          failedLines, completed, brandsTable, notesTable, run, history,
          normIn, normOut, normCount>>

None == "None"

-----------------------------------------------------------------------------
(* Sequences                                                               *)

RECURSIVE Concat(_)
Concat(ss) == IF ss = <<>> THEN <<>> ELSE Head(ss) \o Concat(Tail(ss))

Range(s) == {s[k] : k \in 1..Len(s)}

RECURSIVE SeqsUpTo(_, _)
SeqsUpTo(S, n) ==
    IF n = 0 THEN {<<>>}
    ELSE LET shorter == SeqsUpTo(S, n - 1)
         IN  shorter \cup {Append(s, x) : s \in {t \in shorter : Len(t) = n - 1}, x \in S}

Min(a, b) == IF a < b THEN a ELSE b

\* s[a:b] of Python for 0 <= a: the elements at 0-based positions a .. b-1.
Slice(s, a, b) == IF a >= Min(b, Len(s)) THEN <<>> ELSE SubSeq(s, a + 1, Min(b, Len(s)))

-----------------------------------------------------------------------------
(* str.lower, str.title, str.replace, str.strip, str.split on code points. *)
(* The case tables cover the code points 0..255 except 170, 181, 186, 223  *)
(* and 255, plus U+01F0 (496, j with caron) and U+030C (780, combining     *)
(* caron); every string of the model stays within them.                    *)

IsUpper(c) == c \in 65..90 \/ (c \in 192..222 /\ c # 215)
IsLower(c) == c \in 97..122 \/ (c \in 224..254 /\ c # 247) \/ c = 496
IsCased(c) == IsUpper(c) \/ IsLower(c)

\* Full case mappings: a code point maps to a sequence of code points.
ToLower(c) == IF IsUpper(c) THEN <<c + 32>> ELSE <<c>>
ToTitle(c) == IF c = 496 THEN <<74, 780>>
              ELSE IF IsLower(c) THEN <<c - 32>> ELSE <<c>>

IsSpace(c) == c \in {9, 10, 11, 12, 13, 28, 29, 30, 31, 32, 133, 160}

Lower(s) == Concat([k \in 1..Len(s) |-> ToLower(s[k])])

\* str.title(): a character after a cased character is lowercased, any other
\* is titlecased; "cased" is judged on the character of the input.
Title(s) ==
    Concat([k \in 1..Len(s) |->
              IF k > 1 /\ IsCased(s[k - 1]) THEN ToLower(s[k]) ELSE ToTitle(s[k])])

\* str.replace for a one-character pattern.
Replace(s, old, new) == Concat([k \in 1..Len(s) |-> IF s[k] = old THEN new ELSE <<s[k]>>])

RECURSIVE LStrip(_)
LStrip(s) == IF s # <<>> /\ IsSpace(Head(s)) THEN LStrip(Tail(s)) ELSE s
RECURSIVE RStrip(_)
RStrip(s) == IF s # <<>> /\ IsSpace(s[Len(s)]) THEN RStrip(SubSeq(s, 1, Len(s) - 1)) ELSE s
Strip(s) == RStrip(LStrip(s))

\* str.split(sep) for a one-character separator: always at least one piece.
RECURSIVE Split(_, _)
Split(s, sep) ==
    IF \A k \in 1..Len(s) : s[k] # sep THEN <<s>>
    ELSE LET k == CHOOSE k \in 1..Len(s) : s[k] = sep /\ \A j \in 1..(k - 1) : s[j] # sep
         IN  <<SubSeq(s, 1, k - 1)>> \o Split(SubSeq(s, k + 1, Len(s)), sep)

\* row[2].replace('-', ' ').title().replace(' ', '-')
NormalizeBrand(raw) == Replace(Title(Replace(raw, 45, <<32>>)), 32, <<45>>)

KeepNote(n) == Strip(n) # <<>> /\ Lower(Strip(n)) # <<117, 110, 107, 110, 111, 119, 110>>

\* [n.strip() for n in row[k].split(',') if n.strip() and n.strip().lower() != 'unknown']
ParseNotes(field) ==
    LET kept == SelectSeq(Split(field, 44), KeepNote)
    IN  [k \in 1..Len(kept) |-> Strip(kept[k])]

-----------------------------------------------------------------------------
(* Text codecs.  DecodeUtf8 covers the one- and two-byte forms; the bytes   *)
(* of the model's files stay below 224, where no longer form starts.       *)

RECURSIVE DecodeUtf8(_)
DecodeUtf8(bs) ==
    IF bs = <<>> THEN [ok |-> TRUE, text |-> <<>>]
    ELSE IF bs[1] < 128 THEN
        LET rest == DecodeUtf8(Tail(bs))
        IN  [ok |-> rest.ok, text |-> <<bs[1]>> \o rest.text]
    ELSE IF bs[1] \in 194..223 /\ Len(bs) >= 2 /\ bs[2] \in 128..191 THEN
        LET rest == DecodeUtf8(SubSeq(bs, 3, Len(bs)))
        IN  [ok |-> rest.ok, text |-> <<(bs[1] - 192) * 64 + (bs[2] - 128)>> \o rest.text]
    ELSE [ok |-> FALSE, text |-> <<>>]

\* latin-1 maps every byte to the code point of the same number.
DecodeLatin1(bs) == [ok |-> TRUE, text |-> bs]

\* cp1252: bytes 128..159 map through a table that leaves five bytes undefined.
Cp1252High == <<8364, 0, 8218, 402, 8222, 8230, 8224, 8225, 710, 8240, 352, 8249, 338,
                0, 381, 0, 0, 8216, 8217, 8220, 8221, 8226, 8211, 8212, 732, 8482,
                353, 8250, 339, 0, 382, 376>>
DecodeCp1252(bs) ==
    [ok   |-> \A k \in 1..Len(bs) : bs[k] \notin {129, 141, 143, 144, 157},
     text |-> [k \in 1..Len(bs) |->
                 IF bs[k] \in 128..159 THEN Cp1252High[bs[k] - 127] ELSE bs[k]]]

encodings == <<"utf-8", "latin-1", "cp1252">>

Decode(encoding, bs) ==
    CASE encoding = "utf-8"   -> DecodeUtf8(bs)
      [] encoding = "latin-1" -> DecodeLatin1(bs)
      [] encoding = "cp1252"  -> DecodeCp1252(bs)

-----------------------------------------------------------------------------
(* The input file.  A line is the sequence of its ';'-separated fields,     *)
(* each a sequence of bytes; oversize marks a line holding a field beyond  *)
(* the csv module's field size limit, on which the reader raises csv.Error.*)
(* chunk is the number of lines one read-and-decode step of the text layer *)
(* covers: a decode error surfaces before any line of its chunk is         *)
(* delivered to the reader.                                                *)

Line(fields) == [fields |-> fields, oversize |-> FALSE]

\* url;name;brand;country;gender;rating;-;year;top;middle;base
Row(brand, top, middle, base) ==
    <<<<114>>, <<110>>, brand, <<99>>, <<77, 101, 110>>, <<52, 44, 53>>, <<>>,
      <<49, 57, 54, 54>>, top, middle, base>>

HeaderLine == Line([k \in 1..11 |-> <<104>>])

Unknown == <<85, 110, 107, 110, 111, 119, 110>>

\* brand "a-b'c" with notes " M , unknown,,"; ten columns; brand "c" + U+00E9 in
\* utf-8; a byte no utf-8 text holds; a field beyond the field size limit.
RowPlain  == Line(Row(<<97, 45, 98, 39, 99>>,
                      <<32, 77, 32, 44, 32, 117, 110, 107, 110, 111, 119, 110, 44, 44>>,
                      Unknown, <<>>) \o <<<<120>>>>)
RowShort  == Line(SubSeq(Row(<<99>>, <<83>>, <<>>, <<>>), 1, 10))
RowUtf8   == Line(Row(<<99, 195, 169>>, <<77>>, <<>>, <<>>))
RowBadUtf8 == Line(Row(<<100, 129>>, <<>>, <<77>>, <<>>))
RowOversize == [fields |-> Row(<<101>>, <<>>, <<>>, <<>>), oversize |-> TRUE]

DataRows == {RowPlain, RowShort, RowUtf8, RowBadUtf8, RowOversize}

\* Row k of a file carries the url "r<k>", so that records can be told apart.
WithUrl(line, k) == [line EXCEPT !.fields =
                        IF Len(@) = 0 THEN @ ELSE [@ EXCEPT ![1] = <<114, 48 + k>>]]

Decodable(encoding, line) ==
    \A k \in 1..Len(line.fields) : Decode(encoding, line.fields[k]).ok

DecodeRow(encoding, line) ==
    [k \in 1..Len(line.fields) |-> Decode(encoding, line.fields[k]).text]

\* Index of the first line the encoding cannot decode, Len + 1 when there is none.
FirstBad(encoding, lines) ==
    IF \A k \in 1..Len(lines) : Decodable(encoding, lines[k]) THEN Len(lines) + 1
    ELSE CHOOSE k \in 1..Len(lines) :
            /\ ~Decodable(encoding, lines[k])
            /\ \A j \in 1..(k - 1) : Decodable(encoding, lines[j])

\* Number of lines the reader receives before the attempt ends.
Delivered(encoding, f) ==
    LET bad == FirstBad(encoding, f.lines)
    IN  IF bad > Len(f.lines) THEN Len(f.lines)
        ELSE ((bad - 1) \div f.chunk) * f.chunk

-----------------------------------------------------------------------------
(* load_csv_data: one pass over the delivered lines.  acc holds the three   *)
(* accumulators and the exception, if any, that ended the pass.  The        *)
(* rating and year columns are parsed inside their own try/except and       *)
(* cannot end a pass; they are left out of the record.                      *)

Gender(g) ==
    LET l == Lower(g)
    IN  IF l = <<119, 111, 109, 101, 110>> THEN <<102, 101, 109, 97, 108, 101>>
        ELSE IF l = <<109, 101, 110>> THEN <<109, 97, 108, 101>>
        ELSE l

\* The record the loop body appends for a row, and the names it adds to the sets.
Extract(row) ==
    LET brand  == NormalizeBrand(row[3])
        top    == ParseNotes(row[9])
        middle == ParseNotes(row[10])
        base   == ParseNotes(row[11])
    IN  [url |-> row[1], name |-> row[2], brand |-> brand, country |-> row[4],
         gender |-> Gender(row[5]), top_notes |-> top, middle_notes |-> middle,
         base_notes |-> base]

NotesOf(rec) == Range(rec.top_notes \o rec.middle_notes \o rec.base_notes)

\* Whether the loop body goes on to extract the row (len(row) < 11: continue).
RowAcceptedFrom10(row) == ~(Len(row) < 10)
RowAccepted(row) == ~(Len(row) < 11)

\* The loop over the rows k..p of the reader, as its net effect on acc: the rows up
\* to the first one the reader rejects are decoded, the accepted ones are extracted
\* in order; a row too short for row[10] raises IndexError.
ProcessRows(encoding, lines, k, p, acc) ==
    LET stop == IF \E j \in k..p : lines[j].oversize
                THEN CHOOSE j \in k..p : lines[j].oversize /\ \A h \in k..(j - 1) : ~lines[h].oversize
                ELSE p + 1
        rows == [j \in 1..(stop - k) |-> DecodeRow(encoding, lines[k + j - 1])]
        accepted == SelectSeq(rows, RowAccepted)
    IN  IF \E j \in 1..Len(accepted) : Len(accepted[j]) < 11
            THEN [acc EXCEPT !.raised = "IndexError"]
        ELSE LET recs == [j \in 1..Len(accepted) |-> Extract(accepted[j])]
             IN  [brands |-> acc.brands \cup {recs[j].brand : j \in 1..Len(recs)},
                  notes |-> acc.notes \cup UNION {NotesOf(recs[j]) : j \in 1..Len(recs)},
                  fragrances |-> acc.fragrances \o recs,
                  raised |-> IF stop <= p THEN "csv.Error" ELSE acc.raised]

\* The body of "for encoding in encodings" for a file that exists.
ReadWith(encoding, f, acc) ==
    LET p   == Delivered(encoding, f)
        bad == FirstBad(encoding, f.lines)
    IN  IF p = 0 THEN
            [acc EXCEPT !.raised = IF Len(f.lines) = 0 THEN "StopIteration"
                                   ELSE "UnicodeDecodeError"]
        ELSE IF f.lines[1].oversize THEN [acc EXCEPT !.raised = "csv.Error"]
        ELSE LET r == ProcessRows(encoding, f.lines, 2, p, acc)
             IN  IF r.raised = None /\ bad <= Len(f.lines)
                 THEN [r EXCEPT !.raised = "UnicodeDecodeError"]
                 ELSE r

\* Where the accumulators start: once per call (lines 51-53).
FreshAccumulators == [brands |-> {}, notes |-> {}, fragrances |-> <<>>, raised |-> None]

\* list(a_set): the elements in an order the program does not control.  All
\* orders for sets of up to MaxPermute elements, one order and its reverse beyond.
RECURSIVE Perms(_)
Perms(S) == IF S = {} THEN {<<>>}
            ELSE UNION {{<<x>> \o t : t \in Perms(S \ {x})} : x \in S}
RECURSIVE SetToSeq(_)
SetToSeq(S) == IF S = {} THEN <<>>
               ELSE LET x == CHOOSE x \in S : TRUE IN <<x>> \o SetToSeq(S \ {x})
Reverse(s) == [k \in 1..Len(s) |-> s[Len(s) + 1 - k]]
MaxPermute == 2
ListOf(S) == IF Cardinality(S) <= MaxPermute THEN Perms(S)
             ELSE {SetToSeq(S), Reverse(SetToSeq(S))}

Absent == [ok |-> FALSE, brands |-> None, notes |-> None, fragrances |-> None]

-----------------------------------------------------------------------------
(* execute_sql and the batch builders.  A response is what requests.post    *)
(* produced: an exception, or a status and a body.  applied tells whether   *)
(* the remote side ran the statement.                                       *)

\* response.json(): the parsed body ("list()" stands for the empty list, None for
\* JSON null), or a failure to parse.
Json(body) ==
    CASE body = "[]"   -> [ok |-> TRUE, value |-> "list()"]
      [] body = "null" -> [ok |-> TRUE, value |-> None]
      [] OTHER         -> [ok |-> FALSE, value |-> None]

Responses ==
    {[kind |-> "exception", status |-> 0, body |-> "", applied |-> a] : a \in BOOLEAN}
    \cup {[kind |-> "response", status |-> 200, body |-> b, applied |-> TRUE] :
            b \in {"[]", "null", "<html>"}}
    \cup {[kind |-> "response", status |-> 204, body |-> "", applied |-> TRUE],
          [kind |-> "response", status |-> 500, body |-> "{}", applied |-> FALSE]}

\* What execute_sql hands back: result, and the exception it lets through.
execute_sqlUncaught(resp) ==
    IF resp.kind = "exception" THEN [result |-> None, raised |-> TRUE]
    ELSE IF resp.status = 200 THEN
        IF Json(resp.body).ok THEN [result |-> Json(resp.body).value, raised |-> FALSE]
        ELSE [result |-> None, raised |-> TRUE]
    ELSE [result |-> None, raised |-> FALSE]
execute_sql(resp) ==
    IF resp.kind = "exception" THEN [result |-> None, raised |-> FALSE]
    ELSE IF resp.status = 200 THEN
        IF Json(resp.body).ok THEN [result |-> Json(resp.body).value, raised |-> FALSE]
        ELSE [result |-> None, raised |-> FALSE]
    ELSE [result |-> None, raised |-> FALSE]

\* brand.replace("'", "''")
Escape(name) == Replace(name, 39, <<39, 39>>)

\* The statement: the target table and the quoted literals of its VALUES list.
BuildSql(table, batch) ==
    [table |-> table, values |-> [k \in 1..Len(batch) |-> Escape(batch[k])]]

\* How the remote side reads a quoted literal: '' stands for one quote.
RECURSIVE Unescape(_)
Unescape(lit) ==
    IF lit = <<>> THEN <<>>
    ELSE IF Len(lit) >= 2 /\ lit[1] = 39 /\ lit[2] = 39
        THEN <<39>> \o Unescape(SubSeq(lit, 3, Len(lit)))
        ELSE <<lit[1]>> \o Unescape(Tail(lit))

\* INSERT INTO t (name) VALUES ... ON CONFLICT (name) DO NOTHING
UpsertReplacing(table, sql) == {Unescape(sql.values[k]) : k \in 1..Len(sql.values)}
Upsert(table, sql) == table \cup {Unescape(sql.values[k]) : k \in 1..Len(sql.values)}

\* create_brands_batch / create_notes_batch: whether a request was sent, the
\* value returned, and whether an exception came through.
create_batch(table, batch, resp) ==
    IF batch = <<>> THEN [sent |-> FALSE, ok |-> TRUE, raised |-> FALSE]
    ELSE LET call == execute_sql(resp)
         IN  [sent |-> TRUE, ok |-> call.result # None, raised |-> call.raised]

batch_size == 50

-----------------------------------------------------------------------------
(* Inputs                                                                   *)

EnvNames == {"SUPABASE_URL", "EXPO_PUBLIC_SUPABASE_URL",
             "SUPABASE_ANON_KEY", "EXPO_PUBLIC_SUPABASE_ANON_KEY"}

\* os.getenv gives None for an unset variable, else its (possibly empty) text.
AllEnvs == [EnvNames -> {None, "", "value"}]
EnvSet == [n \in EnvNames |-> "value"]
EnvNoUrl == [EnvSet EXCEPT !["SUPABASE_URL"] = None, !["EXPO_PUBLIC_SUPABASE_URL"] = ""]

Truthy(x) == x \notin {None, ""}
\* a or b
PyOr(a, b) == IF Truthy(a) THEN a ELSE b

MaxRows == 2
BigRows == 51
MaxRuns == 2
MaxBrandLen == 3

FileOf(rows, chunk) ==
    [exists |-> TRUE,
     lines  |-> <<HeaderLine>> \o [k \in 1..Len(rows) |-> WithUrl(rows[k], k)],
     chunk  |-> chunk]
MissingFile == [exists |-> FALSE, lines |-> <<>>, chunk |-> 1]
EmptyFile == [exists |-> TRUE, lines |-> <<>>, chunk |-> 1]

\* Chunkings that differ in effect: line by line, or the whole file in one chunk.
Chunkings(rows) ==
    IF \E k \in 1..Len(rows) : ~Decodable("utf-8", rows[k]) THEN {1, Len(rows) + 1} ELSE {1}

SmallFiles ==
    {MissingFile, EmptyFile}
    \cup UNION {{FileOf(rows, c) : c \in Chunkings(rows)} : rows \in SeqsUpTo(DataRows, MaxRows)}

\* A file of n rows with n distinct brands and n + 1 distinct notes.
Digits(k) == <<48 + (k \div 100), 48 + ((k \div 10) % 10), 48 + (k % 10)>>
GenFile(n) ==
    FileOf([k \in 1..n |-> Line(Row(<<98>> \o Digits(k), <<116>> \o Digits(k), Unknown,
                                    <<97, 109, 98, 101, 114>>))], 1)
BigFiles == {GenFile(BigRows - 1), GenFile(BigRows)}

\* What the remote tables hold before the first run: nothing, or some names of
\* which one is a brand and one a note of RowPlain.
Tables == {[brands |-> {}, notes |-> {}],
           [brands |-> {<<65, 45, 66, 39, 67>>, <<90>>}, notes |-> {<<77>>}]}

NoCall == [table |-> None, index |-> 0, sent |-> FALSE, response |-> None,
           result |-> None, ok |-> TRUE]

-----------------------------------------------------------------------------
(* The script                                                               *)

InitOf(envs, files, tables) ==
    /\ pc = "start"
    /\ env \in envs
    /\ SUPABASE_URL = None /\ SUPABASE_ANON_KEY = None
    /\ file \in files
    /\ encIdx = 1 /\ attempts = <<>> /\ opens = 0
    /\ brands = {} /\ notes = {} /\ fragrances = <<>>
    /\ loadResult = Absent
    /\ i = 0 /\ requests = <<>> /\ lastCall = NoCall
    /\ failedLines = {} /\ completed = FALSE
    /\ \E t \in tables :
          /\ brandsTable = t.brands /\ notesTable = t.notes
          /\ history = [ok |-> FALSE, brands |-> t.brands, notes |-> t.notes]
    /\ run = 1
    /\ normIn = <<>> /\ normOut = <<>> /\ normCount = 0

normVars == <<normIn, normOut, normCount>>
loadVars == <<encIdx, attempts, opens, brands, notes, fragrances, loadResult>>
mainVars == <<i, requests, lastCall, failedLines, completed>>
remoteVars == <<brandsTable, notesTable>>
inputVars == <<env, file, run, history>>

\* Lines 18-23: read the configuration, exit when a value is missing.
ConfigMissingBoth(url, key) == ~Truthy(url) /\ ~Truthy(key)
ConfigMissing(url, key) == ~Truthy(url) \/ ~Truthy(key)

Startup ==
    /\ pc = "start"
    /\ LET url == PyOr(env["SUPABASE_URL"], env["EXPO_PUBLIC_SUPABASE_URL"])
           key == PyOr(env["SUPABASE_ANON_KEY"], env["EXPO_PUBLIC_SUPABASE_ANON_KEY"])
       IN  /\ SUPABASE_URL' = url
           /\ SUPABASE_ANON_KEY' = key
           /\ pc' = IF ConfigMissing(url, key) THEN "exited" ELSE "main"
    /\ UNCHANGED <<loadVars, mainVars, remoteVars, inputVars, normVars>>

\* main calls load_csv_data, which starts from empty accumulators.
LoadBegin ==
    /\ pc = "main"
    /\ pc' = "load"
    /\ brands' = FreshAccumulators.brands
    /\ notes' = FreshAccumulators.notes
    /\ fragrances' = FreshAccumulators.fragrances
    /\ encIdx' = 1
    /\ attempts' = <<>>
    /\ UNCHANGED <<SUPABASE_URL, SUPABASE_ANON_KEY, opens, loadResult, mainVars,
                   remoteVars, inputVars, normVars>>

\* Whether the loop over the encodings goes on after this attempt.
TryNextOnAnyError(raised, idx) == raised # None /\ idx < Len(encodings)
TryNext(raised, idx) == raised = "UnicodeDecodeError" /\ idx < Len(encodings)
\* Whether load_csv_data returns its lists after this attempt.
ReturnsLists(raised, idx) ==
    raised = None \/ (raised = "UnicodeDecodeError" /\ idx = Len(encodings))

\* One iteration of "for encoding in encodings", and the return that follows it.
TryEncoding ==
    /\ pc = "load"
    /\ LET encoding == encodings[encIdx]
           acc == [brands |-> brands, notes |-> notes, fragrances |-> fragrances,
                   raised |-> None]
           r == IF ~file.exists THEN [acc EXCEPT !.raised = "FileNotFoundError"]
                ELSE ReadWith(encoding, file, acc)
       IN  /\ opens' = opens + 1
           /\ attempts' = Append(attempts, [encoding |-> encoding, raised |-> r.raised])
           /\ brands' = r.brands
           /\ notes' = r.notes
           /\ fragrances' = r.fragrances
           /\ IF TryNext(r.raised, encIdx) THEN
                 /\ encIdx' = encIdx + 1
                 /\ pc' = "load"
                 /\ UNCHANGED loadResult
              ELSE IF ReturnsLists(r.raised, encIdx) THEN
                 /\ \E bl \in ListOf(r.brands), nl \in ListOf(r.notes) :
                       loadResult' = [ok |-> TRUE, brands |-> bl, notes |-> nl,
                                      fragrances |-> r.fragrances]
                 /\ pc' = "loaded"
                 /\ UNCHANGED encIdx
              ELSE
                 /\ loadResult' = Absent
                 /\ pc' = "loaded"
                 /\ UNCHANGED encIdx
    /\ UNCHANGED <<SUPABASE_URL, SUPABASE_ANON_KEY, mainVars, remoteVars, inputVars,
                   normVars>>

\* if not brands: print failure and return.
LoadFailed(r) == IF r.ok THEN r.brands = <<>> ELSE TRUE

MainCheck ==
    /\ pc = "loaded"
    /\ IF LoadFailed(loadResult) THEN pc' = "done" ELSE pc' = "brands"
    /\ i' = 0
    /\ UNCHANGED <<SUPABASE_URL, SUPABASE_ANON_KEY, loadVars, requests, lastCall,
                   failedLines, completed, remoteVars, inputVars, normVars>>

\* batch = names[i:i+batch_size]
BatchOneShort(names, k) == Slice(names, k, k + batch_size - 1)
Batch(names, k) == Slice(names, k, k + batch_size)
\* range(0, len(names), batch_size): the index after k, whatever the batch returned.
NextIndexRetry(k, ok) == IF ok THEN k + batch_size ELSE k
NextIndex(k, ok) == k + batch_size
BatchNo(k) == (k \div batch_size) + 1

\* One iteration of a batch loop of main on table t.
BatchStep(t, names, table, resp) ==
    LET batch == Batch(names, i)
        sql == BuildSql(t, batch)
        r == create_batch(t, batch, resp)
    IN  /\ requests' = IF r.sent THEN Append(requests, sql) ELSE requests
        /\ table' = IF r.sent /\ resp.applied THEN Upsert(table, sql) ELSE table
        /\ lastCall' = [table |-> t, index |-> BatchNo(i), sent |-> r.sent,
                        response |-> resp, result |-> execute_sql(resp).result,
                        ok |-> r.ok]
        /\ failedLines' = IF r.ok THEN failedLines ELSE failedLines \cup {<<t, BatchNo(i)>>}
        /\ IF r.raised THEN pc' = "crashed" /\ i' = i
           ELSE pc' = pc /\ i' = NextIndex(i, r.ok)

BrandsBatch ==
    /\ pc = "brands"
    /\ i < Len(loadResult.brands)
    /\ \E resp \in Responses : BatchStep("brands", loadResult.brands, brandsTable, resp)
    /\ UNCHANGED <<SUPABASE_URL, SUPABASE_ANON_KEY, loadVars, completed, notesTable,
                   inputVars, normVars>>

BrandsDone ==
    /\ pc = "brands"
    /\ ~(i < Len(loadResult.brands))
    /\ pc' = "notes"
    /\ i' = 0
    /\ UNCHANGED <<SUPABASE_URL, SUPABASE_ANON_KEY, loadVars, requests, lastCall,
                   failedLines, completed, remoteVars, inputVars, normVars>>

NotesBatch ==
    /\ pc = "notes"
    /\ i < Len(loadResult.notes)
    /\ \E resp \in Responses : BatchStep("notes", loadResult.notes, notesTable, resp)
    /\ UNCHANGED <<SUPABASE_URL, SUPABASE_ANON_KEY, loadVars, completed, brandsTable,
                   inputVars, normVars>>

NotesDone ==
    /\ pc = "notes"
    /\ ~(i < Len(loadResult.notes))
    /\ pc' = "done"
    /\ completed' = TRUE
    /\ UNCHANGED <<SUPABASE_URL, SUPABASE_ANON_KEY, loadVars, i, requests, lastCall,
                   failedLines, remoteVars, inputVars, normVars>>

\* The script is invoked again on the same file against the same remote tables.
Rerun ==
    /\ pc \in {"done", "exited"}
    /\ run < MaxRuns
    /\ run' = run + 1
    /\ history' = [ok |-> completed /\ failedLines = {},
                   brands |-> brandsTable, notes |-> notesTable]
    /\ pc' = "start"
    /\ SUPABASE_URL' = None /\ SUPABASE_ANON_KEY' = None
    /\ encIdx' = 1 /\ attempts' = <<>> /\ opens' = 0
    /\ brands' = {} /\ notes' = {} /\ fragrances' = <<>>
    /\ loadResult' = Absent
    /\ i' = 0 /\ requests' = <<>> /\ lastCall' = NoCall
    /\ failedLines' = {} /\ completed' = FALSE
    /\ UNCHANGED <<env, file, remoteVars, normVars>>

\* The brand transform applied to a raw string, and again to its result.
NormAlphabet == {32, 39, 45, 65, 97, 496}

Normalize ==
    /\ pc = "norm"
    /\ normCount < 2
    /\ normOut' = Append(normOut, NormalizeBrand(IF normOut = <<>> THEN normIn
                                                 ELSE normOut[Len(normOut)]))
    /\ normCount' = normCount + 1
    /\ UNCHANGED <<pc, SUPABASE_URL, SUPABASE_ANON_KEY, loadVars, mainVars, remoteVars,
                   inputVars, normIn>>

Next ==
    \/ Startup \/ LoadBegin \/ TryEncoding \/ MainCheck
    \/ BrandsBatch \/ BrandsDone \/ NotesBatch \/ NotesDone

EmptyTables == [brands |-> {}, notes |-> {}]
Init == InitOf({EnvSet, EnvNoUrl}, SmallFiles \cup BigFiles, {EmptyTables})
Spec == Init /\ [][Next]_vars

\* Every configuration of the environment, one input file.
InitConfig == InitOf(AllEnvs, {FileOf(<<RowPlain, RowUtf8>>, 1)}, {EmptyTables})
SpecConfig == InitConfig /\ [][Next]_vars

\* Repeated invocations.
NextRerun == Next \/ Rerun
InitRerun ==
    \/ InitOf({EnvSet}, {FileOf(<<RowPlain, RowShort>>, 1), FileOf(<<RowUtf8, RowBadUtf8>>, 1)},
              Tables)
    \/ InitOf({EnvSet}, {GenFile(BigRows)}, {EmptyTables})
SpecRerun == InitRerun /\ [][NextRerun]_vars

\* The brand transform alone.
NextNormalize == Normalize
InitNormalize ==
    /\ pc = "norm" /\ env = EnvSet /\ SUPABASE_URL = None /\ SUPABASE_ANON_KEY = None
    /\ file = MissingFile /\ encIdx = 1 /\ attempts = <<>> /\ opens = 0
    /\ brands = {} /\ notes = {} /\ fragrances = <<>> /\ loadResult = Absent
    /\ i = 0 /\ requests = <<>> /\ lastCall = NoCall /\ failedLines = {}
    /\ completed = FALSE /\ brandsTable = {} /\ notesTable = {} /\ run = 1
    /\ history = [ok |-> FALSE, brands |-> {}, notes |-> {}]
    /\ normIn \in SeqsUpTo(NormAlphabet, MaxBrandLen) /\ normOut = <<>> /\ normCount = 0
SpecNormalize == InitNormalize /\ [][NextNormalize]_vars

-----------------------------------------------------------------------------
(* Properties                                                               *)

Returned == pc \in {"loaded", "brands", "notes", "done", "crashed"}
LastAttempt == attempts[Len(attempts)]

\* The rows of the file after the header, and those with at least 11 columns.
DataLineNos == 2..Len(file.lines)
LongLineNos == {k \in DataLineNos : Len(file.lines[k].fields) >= 11}
UrlOf(k) == file.lines[k].fields[1]

StatementsFor(t) == SelectSeq(requests, LAMBDA q : q.table = t)
CeilDiv(n, d) == (n + d - 1) \div d

\* The statements main is to issue for a list of names, in order.
ExpectedStatements(t, names) ==
    [k \in 1..CeilDiv(Len(names), batch_size) |->
        BuildSql(t, Slice(names, (k - 1) * batch_size, k * batch_size))]
ExpectedRequests ==
    ExpectedStatements("brands", loadResult.brands)
        \o ExpectedStatements("notes", loadResult.notes)
IsPrefix(s, t) == Len(s) <= Len(t) /\ SubSeq(t, 1, Len(s)) = s

\* C1: when the endpoint URL or the credential is missing (both of its environment
\* variables unset or empty), the script exits at start-up: it never gets past the
\* configuration check, never opens the CSV file and never issues a request.
EnvMissing ==
    \/ ~Truthy(env["SUPABASE_URL"]) /\ ~Truthy(env["EXPO_PUBLIC_SUPABASE_URL"])
    \/ ~Truthy(env["SUPABASE_ANON_KEY"]) /\ ~Truthy(env["EXPO_PUBLIC_SUPABASE_ANON_KEY"])
C1_MissingConfigExits ==
    EnvMissing => /\ pc \in {"start", "exited"}
                  /\ opens = 0
                  /\ requests = <<>>
                  /\ ~completed
C1_Witness ==
    /\ pc = "exited"
    /\ Truthy(env["SUPABASE_URL"])
    /\ env["SUPABASE_ANON_KEY"] = "" /\ env["EXPO_PUBLIC_SUPABASE_ANON_KEY"] = None

\* C2: the encodings are tried in the order utf-8, latin-1, cp1252, each only after
\* every earlier one ended in a decode error, and none after one that did not; no
\* load ends with all three having failed to decode (latin-1 decodes every byte
\* sequence), so the case "none decodes" never arises; and whenever the load ends
\* by an exception it returns the absent triple and main returns without issuing a
\* request and without the completion message.
C2_EncodingsInOrder ==
    /\ \A k \in 1..Len(attempts) :
          /\ k <= Len(encodings)
          /\ attempts[k].encoding = encodings[k]
          /\ k < Len(attempts) => attempts[k].raised = "UnicodeDecodeError"
    /\ opens = Len(attempts)
    /\ (pc = "load" /\ attempts # <<>>) => LastAttempt.raised = "UnicodeDecodeError"
    /\ Returned =>
          /\ attempts # <<>>
          /\ LastAttempt.raised # "UnicodeDecodeError"
          /\ loadResult.ok <=> LastAttempt.raised = None
          /\ ~loadResult.ok =>
                /\ loadResult = Absent
                /\ pc \in {"loaded", "done"}
                /\ requests = <<>>
                /\ ~completed
C2_Witness ==
    /\ pc = "done"
    /\ Len(attempts) = 2
    /\ attempts[1].raised = "UnicodeDecodeError"
    /\ attempts[2].raised = "csv.Error"
    /\ loadResult = Absent

\* C3: once the load has produced at least one brand, main issues the brand
\* statements and then the note statements, each exactly once and in order, whatever
\* the responses: the requests issued so far are always a prefix of that list, main
\* is never stopped by a failed batch, it can always take its next step, and when it
\* ends it has issued the whole list and printed the completion message.
C3_AllBatchesOnce ==
    (Returned /\ ~LoadFailed(loadResult)) =>
        /\ pc \in {"loaded", "brands", "notes", "done"}
        /\ IsPrefix(requests, ExpectedRequests)
        /\ pc = "brands" => Len(requests) = CeilDiv(Min(i, Len(loadResult.brands)), batch_size)
        /\ pc # "done" => ENABLED Next
        /\ pc = "done" => completed /\ requests = ExpectedRequests
C3_Witness ==
    /\ pc = "done" /\ completed
    /\ Len(requests) >= 3
    /\ <<"brands", 1>> \in failedLines
    /\ lastCall.ok

\* C4: a successful load holds no record, brand or note of a row with fewer than 11
\* columns, holds a record of every row with at least 11 columns (those that follow
\* a short row included), and short rows never make the load fail: a file that
\* exists, has a header and no line the csv reader rejects loads successfully.
C4_ShortRowsSkipped ==
    Returned =>
        /\ loadResult.ok =>
              /\ \A r \in 1..Len(loadResult.fragrances) :
                    \E k \in LongLineNos : UrlOf(k) = loadResult.fragrances[r].url
              /\ \A k \in LongLineNos :
                    \E r \in 1..Len(loadResult.fragrances) :
                        loadResult.fragrances[r].url = UrlOf(k)
              /\ brands = {loadResult.fragrances[r].brand : r \in 1..Len(loadResult.fragrances)}
              /\ notes = UNION {NotesOf(loadResult.fragrances[r]) :
                                    r \in 1..Len(loadResult.fragrances)}
        /\ (file.exists /\ file.lines # <<>> /\ \A k \in 1..Len(file.lines) : ~file.lines[k].oversize)
              => loadResult.ok
C4_Witness ==
    /\ Returned /\ loadResult.ok
    /\ Len(file.lines) = 3
    /\ Len(file.lines[2].fields) < 11
    /\ Len(file.lines[3].fields) >= 11
    /\ Len(loadResult.fragrances) = 1
    /\ loadResult.fragrances[1].url = UrlOf(3)

\* C5 as stated: execute_sql lets no exception through, returns the parsed JSON body
\* on every HTTP 200 response, and None on any other status or exception.
C5_Returns200Body ==
    lastCall.sent =>
        /\ pc # "crashed"
        /\ IF lastCall.response.kind = "response" /\ lastCall.response.status = 200
           THEN Json(lastCall.response.body).ok
                /\ lastCall.result = Json(lastCall.response.body).value
           ELSE lastCall.result = None
\* C5, amended: execute_sql lets no exception through; on an HTTP 200 response whose
\* body parses as JSON it returns the parsed body, and in every other case (another
\* status, an exception while sending, a 200 body that is not JSON) it returns None.
C5_ReturnsBodyOrNone ==
    lastCall.sent =>
        /\ pc # "crashed"
        /\ IF /\ lastCall.response.kind = "response"
              /\ lastCall.response.status = 200
              /\ Json(lastCall.response.body).ok
           THEN lastCall.result = Json(lastCall.response.body).value
           ELSE lastCall.result = None
C5_Witness ==
    /\ lastCall.sent
    /\ lastCall.response.kind = "response" /\ lastCall.response.status = 200
    /\ ~Json(lastCall.response.body).ok
    /\ lastCall.result = None
    /\ pc = "notes"

\* C6: with the remote tables as sets of names and each statement an
\* insert-unless-present, a run in which every batch succeeded leaves each table
\* equal to what it held before the run plus the loaded names, whatever the order of
\* the names in the lists (so the contents do not depend on the batch order), and a
\* run that follows a fully successful run on the same file changes neither table.
C6_UpsertIdempotent ==
    /\ (completed /\ failedLines = {}) =>
          /\ brandsTable = history.brands \cup brands
          /\ notesTable = history.notes \cup notes
    /\ (run >= 2 /\ history.ok) =>
          /\ brandsTable = history.brands
          /\ notesTable = history.notes
C6_Witness ==
    /\ run = 2 /\ history.ok
    /\ completed /\ failedLines = {}
    /\ Len(StatementsFor("brands")) >= 2
    /\ brandsTable = brands /\ Cardinality(brands) > batch_size

\* C7: when main completes it has issued ceil(n/50) brand statements and ceil(m/50)
\* note statements for the n brands and m notes loaded; every statement ever issued
\* carries between 1 and 50 value tuples; and every loaded name stands in exactly one
\* place of exactly one statement of its table.
Places(t, name) ==
    {<<q, k>> \in (1..Len(requests)) \X (1..batch_size) :
        /\ requests[q].table = t
        /\ k <= Len(requests[q].values)
        /\ Unescape(requests[q].values[k]) = name}
C7_BatchesOfFifty ==
    /\ \A q \in 1..Len(requests) : Len(requests[q].values) \in 1..50
    /\ completed =>
          /\ Len(StatementsFor("brands")) = CeilDiv(Len(loadResult.brands), 50)
          /\ Len(StatementsFor("notes")) = CeilDiv(Len(loadResult.notes), 50)
          /\ \A b \in Range(loadResult.brands) : Cardinality(Places("brands", b)) = 1
          /\ \A n \in Range(loadResult.notes) : Cardinality(Places("notes", n)) = 1
C7_Witness ==
    /\ completed
    /\ Len(loadResult.brands) = 50 /\ Len(StatementsFor("brands")) = 1
    /\ Len(loadResult.notes) = 51 /\ Len(StatementsFor("notes")) = 2
    /\ Len(requests[1].values) = 50 /\ Len(requests[3].values) = 1

\* C8: brand normalisation is idempotent: applying it to its own result changes
\* nothing.
C8_NormalizeIdempotent ==
    normCount = 2 => normOut[2] = normOut[1]

\* The records of the rows with at least 11 columns, in file order, as one encoding
\* decodes them.
DecodeRowsWith(encoding) ==
    LET rows == [k \in 1..(Len(file.lines) - 1) |-> DecodeRow(encoding, file.lines[k + 1])]
        long == SelectSeq(rows, LAMBDA row : Len(row) >= 11)
    IN  [r \in 1..Len(long) |-> Extract(long[r])]

\* C9: a successful load holds exactly one record per row of the file with at least
\* 11 columns, in file order, and its brand and note sets hold only the values of
\* those records, which come from the decoding that succeeded.
C9_OneRecordPerRow ==
    (Returned /\ loadResult.ok) =>
        LET good == DecodeRowsWith(LastAttempt.encoding)
        IN  /\ loadResult.fragrances = good
            /\ brands = {good[r].brand : r \in 1..Len(good)}
            /\ notes = UNION {NotesOf(good[r]) : r \in 1..Len(good)}

\* C10: a batch that was sent is reported successful exactly when its request
\* completed with status 200, and main prints the failure line of a batch only when
\* its request did not.
C10_SuccessIffStatus200 ==
    lastCall.sent =>
        LET ok200 == lastCall.response.kind = "response" /\ lastCall.response.status = 200
        IN  /\ lastCall.ok <=> ok200
            /\ <<lastCall.table, lastCall.index>> \in failedLines <=> ~ok200

====
